---- MODULE Spec2Model ----
(***************************************************************************)
(* Conditional normalization layers of ppdiffusers/models/normalization.py *)
(* (AdaLayerNorm, AdaLayerNormZero, AdaLayerNormSingle, AdaGroupNorm,      *)
(* AdaLayerNormContinuous, RMSNorm) as a state machine: a layer is         *)
(* constructed, its forward is called, the caller drops the result or the  *)
(* layer.  Tensors are records [shape, data]; data maps every index tuple  *)
(* of the shape to a fixed-point number with Unit steps per 1.0.           *)
(***************************************************************************)
EXTENDS Integers, Sequences, FiniteSets, TLC

VARIABLES layer, pc, new, op, args, ret, raised, locals

vars == <<layer, pc, new, op, args, ret, raised, locals>>

(***************************************************************************)
(* Bounds of the model.                                                    *)
(***************************************************************************)
\* Steps per 1.0 of the fixed-point numbers; a variance is in 1/Unit^2.
Unit == 1000
\* Largest batch size of an input.
MaxBatch == 2
\* Largest sequence length (and spatial height/width) of an input.
MaxSeq == 2
\* Largest embedding_dim / dim / conditioning_embedding_dim of a layer.
MaxDim == 2
\* Largest num_embeddings of an embedding table.
MaxEmbeddings == 2

(***************************************************************************)
(* Numbers.                                                                *)
(***************************************************************************)
Abs(a) == IF a < 0 THEN -a ELSE a

Max(a, b) == IF a >= b THEN a ELSE b

\* a * b of two fixed-point numbers.
FMul(a, b) == (a * b) \div Unit

\* a / b of two fixed-point numbers, b > 0.
FDiv(a, b) == (a * Unit) \div b

RECURSIVE SqrtSearch(_, _, _)
SqrtSearch(n, lo, hi) ==
    IF lo >= hi THEN lo
    ELSE LET mid == (lo + hi + 1) \div 2
         IN  IF mid * mid <= n THEN SqrtSearch(n, mid, hi)
             ELSE SqrtSearch(n, lo, mid - 1)

\* The integer square root of n >= 0: of a variance in 1/Unit^2 it is the
\* standard deviation in 1/Unit.
Isqrt(n) == SqrtSearch(n, 0, IF n < 46340 THEN n ELSE 46340)

RECURSIVE SumTo(_, _)
\* f[1] + ... + f[n]
SumTo(f, n) == IF n = 0 THEN 0 ELSE f[n] + SumTo(f, n - 1)

(***************************************************************************)
(* Tensors.                                                                *)
(***************************************************************************)
RECURSIVE Indices(_)
\* Every index tuple (1-based) of a shape.
Indices(sh) ==
    IF Len(sh) = 0 THEN {<<>>}
    ELSE {<<i>> \o r : i \in 1..Head(sh), r \in Indices(Tail(sh))}

\* The tensor with the given shape and data; data maps every index tuple of
\* the shape to an element.
Tensor(shape, data) == [shape |-> shape, data |-> data]

\* A result of an operation: a value, or the exception it raised.
Ok(v) == [ok |-> TRUE, val |-> v, err |-> ""]

Raise(e) == [ok |-> FALSE, val |-> <<>>, err |-> e]

\* A shape padded on the left with 1s to rank n.
PadShape(sh, n) ==
    [k \in 1..n |-> IF k <= n - Len(sh) THEN 1 ELSE sh[k - (n - Len(sh))]]

\* Broadcasting of elementwise binary operators: shapes are aligned on the
\* right; two extents are compatible when equal or when one of them is 1.
Broadcastable(s1, s2) ==
    LET n == Max(Len(s1), Len(s2))
        a == PadShape(s1, n)
        b == PadShape(s2, n)
    IN  \A k \in 1..n : a[k] = b[k] \/ a[k] = 1 \/ b[k] = 1

BroadcastShape(s1, s2) ==
    LET n == Max(Len(s1), Len(s2))
        a == PadShape(s1, n)
        b == PadShape(s2, n)
    IN  [k \in 1..n |-> IF a[k] = 1 THEN b[k] ELSE a[k]]

\* The index of an operand of shape sh that the result's index ix reads.
Project(ix, sh) ==
    LET off == Len(ix) - Len(sh)
    IN  [k \in 1..Len(sh) |-> IF sh[k] = 1 THEN 1 ELSE ix[k + off]]

\* The element a normalization yields where its denominator is not a
\* positive number (0/0, or the square root of a negative number).
NaN == 0 - 1000000000

NanMul(a, b) == IF a = NaN \/ b = NaN THEN NaN ELSE FMul(a, b)

NanPlus(a, b) == IF a = NaN \/ b = NaN THEN NaN ELSE a + b

\* a * b and a + b of single elements, by the name of the operator.
Apply(name, u, v) == IF name = "*" THEN NanMul(u, v) ELSE NanPlus(u, v)

\* a * b or a + b elementwise with broadcasting; an error when the shapes do
\* not broadcast.
Elementwise(name, a, b) ==
    IF ~Broadcastable(a.shape, b.shape)
    THEN Raise("ValueError")
    ELSE LET sh == BroadcastShape(a.shape, b.shape)
         IN  Ok(Tensor(sh, [ix \in Indices(sh) |->
                   Apply(name, a.data[Project(ix, a.shape)],
                               b.data[Project(ix, b.shape)])]))

\* 1 + t
OnePlus(t) == Tensor(t.shape, [ix \in Indices(t.shape) |-> Unit + t.data[ix]])

\* a * (1 + b) + c, the modulation every Ada* layer applies, with paddle's
\* broadcasting at the product and at the sum.
Modulate(a, b, c) ==
    LET p == Elementwise("*", a, OnePlus(b))
    IN  IF ~p.ok THEN p ELSE Elementwise("+", p.val, c)

\* An index tuple with its k-th component replaced by v.
SetAt(ix, k, v) == [j \in 1..Len(ix) |-> IF j = k THEN v ELSE ix[j]]

\* paddle.chunk(t, n, axis): n equal parts along the (0-based) axis; an
\* error when the extent is not divisible by n.
Chunk(t, n, axis) ==
    LET k == axis + 1
    IN  IF k > Len(t.shape) \/ t.shape[k] % n # 0
        THEN Raise("ValueError")
        ELSE LET w  == t.shape[k] \div n
                 sh == SetAt(t.shape, k, w)
             IN  Ok([c \in 1..n |->
                       Tensor(sh, [ix \in Indices(sh) |-> t.data[SetAt(ix, k, (c - 1) * w + ix[k])]])])

\* paddle.concat(parts, axis) of equally shaped parts.
Concat(parts, axis) ==
    LET k  == axis + 1
        w  == parts[1].shape[k]
        sh == SetAt(parts[1].shape, k, w * Len(parts))
    IN  Tensor(sh, [ix \in Indices(sh) |-> parts[((ix[k] - 1) \div w) + 1].data[
                SetAt(ix, k, ((ix[k] - 1) % w) + 1)]])

\* t[:, None] : a new axis of extent 1 at (0-based) position 1.
Unsqueeze1(t) ==
    LET sh == <<t.shape[1], 1>> \o Tail(t.shape)
    IN  Tensor(sh, [ix \in Indices(sh) |-> t.data[<<ix[1]>> \o Tail(Tail(ix))]])

\* t[:, :, None, None] of a 2-D tensor.
Unsqueeze23(t) ==
    Tensor(t.shape \o <<1, 1>>, [ix \in Indices(t.shape \o <<1, 1>>) |-> t.data[<<ix[1], ix[2]>>]])

(***************************************************************************)
(* Values.                                                                 *)
(***************************************************************************)
\* Python's None.
None == [none |-> TRUE]

\* Whether a record (a tensor, a layer, a wrapped scalar or None) is None.
IsNone(v) == "none" \in DOMAIN v

\* A string or number where None is possible too.
Some(v) == [some |-> v]

\* Epsilons, in steps of 1e-6: the default 1e-5 of the layers and of
\* paddle's normalizers, and the 1e-6 of AdaLayerNormZero.
Eps1e5 == 10

Eps1e6 == 1

\* The epsilons a caller constructs a layer with.
EpsChoices == {Eps1e5, Eps1e6, 0, 0 - Eps1e6}

RECURSIVE Flat(_)
\* A number that tells the index tuples of a small tensor apart.
Flat(ix) == IF Len(ix) = 0 THEN 0 ELSE Head(ix) + 3 * Flat(Tail(ix))

\* The values parameters and conditioning vectors are made of.
ParamVals == <<250, 0 - 500, 1000, 0, 1500>>

\* The values activations are made of; 1000 and 1002 differ by about the
\* square root of an epsilon.
XVals == <<1000, 1002, 0, 500, 0 - 500>>

\* The tensor of shape sh filled from vals, starting at seed.
Fill(sh, vals, seed) ==
    Tensor(sh, [ix \in Indices(sh) |-> vals[((seed + Flat(ix)) % Len(vals)) + 1]])

Full(sh, v) == Tensor(sh, [ix \in Indices(sh) |-> v])

Last(sh) == sh[Len(sh)]

Front(sh) == SubSeq(sh, 1, Len(sh) - 1)

\* The patterns parameter and input tensors are filled from.
Seeds == {0, 1}

Dims == 1..MaxDim

(***************************************************************************)
(* The layers of paddle.nn that the module builds on.                      *)
(***************************************************************************)
\* sigmoid(a), by the rational approximation 1/2 + a / (2 (1 + |a|)).
Sigmoid(a) == (Unit \div 2) + FDiv(a, 2 * (Unit + Abs(a)))

\* nn.Silu: a * sigmoid(a), elementwise.
Silu(t) == Tensor(t.shape, [ix \in Indices(t.shape) |-> FMul(t.data[ix], Sigmoid(t.data[ix]))])

\* nn.Linear(in, out, bias_attr): a weight [in, out] and, unless bias_attr is
\* False, a bias [out].
Linear_init(in, out, bias_attr, seed) ==
    [weight |-> Fill(<<in, out>>, ParamVals, seed),
     bias   |-> IF bias_attr THEN Fill(<<out>>, ParamVals, seed + 1) ELSE None]

\* nn.Linear.forward: x @ weight + bias over the last axis of x.
Linear_forward(self, x) ==
    LET in  == self.weight.shape[1]
        out == self.weight.shape[2]
    IN  IF Len(x.shape) = 0 \/ Last(x.shape) # in
        THEN Raise("ValueError")
        ELSE Ok(Tensor(Front(x.shape) \o <<out>>, [ix \in Indices(Front(x.shape) \o <<out>>) |-> SumTo([i \in 1..in |->
                          FMul(x.data[Front(ix) \o <<i>>],
                               self.weight.data[<<i, Last(ix)>>])], in)
                 + (IF IsNone(self.bias) THEN 0 ELSE self.bias.data[<<Last(ix)>>])]))

\* nn.Embedding(num_embeddings, embedding_dim): the table.
Embedding_init(num_embeddings, embedding_dim, seed) ==
    [weight |-> Fill(<<num_embeddings, embedding_dim>>, ParamVals, seed + 2)]

\* nn.Embedding.forward: row ids[ix] of the table for every index, an error
\* for an id outside 0..num_embeddings-1.
Embedding_forward(self, ids) ==
    IF \E ix \in DOMAIN ids.data :
          ids.data[ix] < 0 \/ ids.data[ix] >= self.weight.shape[1]
    THEN Raise("ValueError")
    ELSE Ok(Tensor(ids.shape \o <<self.weight.shape[2]>>, [ix \in Indices(ids.shape \o <<self.weight.shape[2]>>) |-> self.weight.data[<<ids.data[Front(ix)] + 1, Last(ix)>>]]))

\* (v - mean) / sqrt(var + eps) of one element v of a group of n elements with
\* sum s and sum of squares q: n v - s over sqrt(n q - s^2 + n^2 eps).
Standardize(v, n, s, q, eps) ==
    LET d == n * q - s * s + n * n * eps
    IN  IF d <= 0 THEN NaN ELSE FDiv(n * v - s, Isqrt(d))

\* v / sqrt(mean of squares + eps) of one element v of a group of n elements
\* with sum of squares q.
RmsScale(v, n, q, eps) ==
    LET d == n * q + n * n * eps
    IN  IF d <= 0 THEN NaN ELSE FDiv(n * v, Isqrt(d))

\* weight and bias of a normalizer applied to a normalized element.
Affine(v, weight, bias, j) ==
    LET w == IF IsNone(weight) THEN v ELSE NanMul(v, weight.data[<<j>>])
    IN  IF IsNone(bias) THEN w ELSE NanPlus(w, bias.data[<<j>>])

\* Layer normalization of x over its last axis.
LayerNormOp(x, weight, bias, eps) ==
    LET n      == Last(x.shape)
        row(p) == [j \in 1..n |-> x.data[p \o <<j>>]]
        sq(p)  == [j \in 1..n |-> x.data[p \o <<j>>] * x.data[p \o <<j>>]]
    IN  Tensor(x.shape, [ix \in Indices(x.shape) |-> Affine(Standardize(x.data[ix], n, SumTo(row(Front(ix)), n),
                               SumTo(sq(Front(ix)), n), eps),
                   weight, bias, Last(ix))])

\* nn.LayerNorm(normalized_shape, epsilon, weight_attr, bias_attr): the
\* weight is absent only when weight_attr is False, the bias only when
\* bias_attr is False.
LayerNorm_init(dim, epsilon, weight_attr, bias_attr) ==
    [kind    |-> "LayerNorm",
     dim     |-> dim,
     epsilon |-> epsilon,
     weight  |-> IF weight_attr THEN Full(<<dim>>, Unit) ELSE None,
     bias    |-> IF bias_attr THEN Full(<<dim>>, 0) ELSE None]

\* nn.LayerNorm.forward.
LayerNorm_forward(self, x) ==
    IF Len(x.shape) = 0 \/ Last(x.shape) # self.dim
    THEN Raise("ValueError")
    ELSE Ok(LayerNormOp(x, self.weight, self.bias, self.epsilon))

\* Group normalization of x [N, C, H, W] over each of `groups` groups of
\* consecutive channels, without weight and bias.
GroupNormOp(x, groups, eps) ==
    LET per == x.shape[2] \div groups
        n   == per * x.shape[3] * x.shape[4]
        total(b, c0, G(_)) ==
            SumTo([c \in 1..per |->
              SumTo([h \in 1..x.shape[3] |->
                SumTo([w \in 1..x.shape[4] |-> G(x.data[<<b, c0 + c, h, w>>])],
                      x.shape[4])], x.shape[3])], per)
        stats == [b \in 1..x.shape[1] |-> [g \in 0..(groups - 1) |->
                    <<total(b, g * per, LAMBDA v : v),
                      total(b, g * per, LAMBDA v : v * v)>>]]
    IN  Tensor(x.shape, [ix \in Indices(x.shape) |-> Standardize(x.data[ix], n,
                        stats[ix[1]][(ix[2] - 1) \div per][1],
                        stats[ix[1]][(ix[2] - 1) \div per][2], eps)])

\* nn.GroupNorm(num_groups, num_channels, epsilon, weight_attr, bias_attr):
\* the constructor stores its arguments and creates weight and bias; it
\* compares neither num_channels with num_groups nor epsilon with 0.
GroupNorm_init(num_groups, num_channels, epsilon) ==
    [kind    |-> "GroupNorm",
     num_groups   |-> num_groups,
     num_channels |-> num_channels,
     epsilon |-> epsilon,
     weight  |-> Full(<<num_channels>>, Unit),
     bias    |-> Full(<<num_channels>>, 0)]

\* nn.GroupNorm.forward with weight and bias absent: the channels of x must
\* divide into num_groups groups.
GroupNorm_forward(self, x) ==
    IF Len(x.shape) # 4 \/ x.shape[2] % self.num_groups # 0
    THEN Raise("ValueError")
    ELSE Ok(GroupNormOp(x, self.num_groups, self.epsilon))

(***************************************************************************)
(* RMSNorm.                                                                *)
(***************************************************************************)
\* paddle.incubate.nn.functional.fused_rms_norm(x, norm_weight, None,
\* epsilon, begin_norm_axis=2) on a 3-D x: x / sqrt(mean(x^2) + eps) over the
\* last axis, times the weight when there is one.
fused_rms_norm(x, norm_weight, epsilon) ==
    LET n     == Last(x.shape)
        sq(p) == [j \in 1..n |-> x.data[p \o <<j>>] * x.data[p \o <<j>>]]
    IN  IF Len(x.shape) # 3
           \/ (~IsNone(norm_weight) /\ norm_weight.shape # <<n>>)
        THEN Raise("ValueError")
        ELSE Ok(Tensor(x.shape, [ix \in Indices(x.shape) |-> Affine(RmsScale(x.data[ix], n, SumTo(sq(Front(ix)), n), epsilon),
                        norm_weight, None, Last(ix))]))

\* RMSNorm.__init__(dim, epsilon, elementwise_affine)
RMSNorm_init(dim, epsilon, elementwise_affine) ==
    [kind    |-> "RMSNorm",
     cls     |-> "RMSNorm",
     dim     |-> dim,
     epsilon |-> epsilon,
     weight  |-> IF elementwise_affine THEN Full(<<dim>>, Unit) ELSE None]

\* RMSNorm.forward(hidden_states): the fused operation is called and its
\* result is dropped; the method has no return statement.
RMSNorm_forward(self, hidden_states) ==
    LET r == fused_rms_norm(hidden_states, self.weight, self.epsilon)
    IN  IF ~r.ok THEN r ELSE Ok(None)

\* self.norm(x) of a layer whose norm is an nn.LayerNorm or an RMSNorm.
Norm_call(norm, x) ==
    IF norm.kind = "RMSNorm" THEN RMSNorm_forward(norm, x)
    ELSE LayerNorm_forward(norm, x)

\* a * (1 + b) + c where a is what self.norm(x) returned: None has no
\* product with a tensor.
ModulateValue(a, b, c) ==
    IF IsNone(a) THEN Raise("TypeError") ELSE Modulate(a, b, c)

(***************************************************************************)
(* The embedders and the activation registry, which the layers consume.    *)
(***************************************************************************)
\* One width-E vector per batch element, decided by the conditioning values
\* key[b] of the element.
EmbedRows(seed, key, batch, width) ==
    Tensor(<<batch, width>>, [ix \in Indices(<<batch, width>>) |-> ParamVals[((seed + key[ix[1]] + 2 * ix[2]) % Len(ParamVals)) + 1]])

CombinedTimestepLabelEmbeddings_init(num_classes, embedding_dim, seed) ==
    [num_classes |-> num_classes, embedding_dim |-> embedding_dim, seed |-> seed]

\* CombinedTimestepLabelEmbeddings.forward(timestep, class_labels).
CombinedTimestepLabelEmbeddings_forward(self, timestep, class_labels) ==
    IF IsNone(timestep) \/ IsNone(class_labels)
    THEN Raise("TypeError")
    ELSE IF \E ix \in DOMAIN class_labels.data :
               class_labels.data[ix] >= self.num_classes
    THEN Raise("ValueError")
    ELSE Ok(EmbedRows(self.seed,
                      [b \in 1..timestep.shape[1] |->
                         timestep.data[<<b>>] + 3 * class_labels.data[<<b>>]],
                      timestep.shape[1], self.embedding_dim))

CombinedTimestepSizeEmbeddings_init(embedding_dim, size_emb_dim, use_additional_conditions, seed) ==
    [embedding_dim |-> embedding_dim, size_emb_dim |-> size_emb_dim,
     use_additional_conditions |-> use_additional_conditions, seed |-> seed]

\* CombinedTimestepSizeEmbeddings.forward(timestep, resolution, aspect_ratio):
\* the size conditions count only when use_additional_conditions is set.
CombinedTimestepSizeEmbeddings_forward(self, timestep, resolution, aspect_ratio) ==
    IF self.use_additional_conditions /\ (IsNone(resolution) \/ IsNone(aspect_ratio))
    THEN Raise("TypeError")
    ELSE Ok(EmbedRows(self.seed,
                      [b \in 1..timestep.shape[1] |->
                         timestep.data[<<b>>]
                         + (IF self.use_additional_conditions
                            THEN resolution.data[<<b>>] + 2 * aspect_ratio.data[<<b>>]
                            ELSE 0)],
                      timestep.shape[1], self.embedding_dim))

\* The names the activation registry knows.
ACTIVATION_FUNCTIONS == {"swish", "silu", "relu"}

Relu(t) == Tensor(t.shape, [ix \in Indices(t.shape) |-> Max(t.data[ix], 0)])

\* The activation a registered name stands for, applied to t.
Activate(name, t) == IF name = "relu" THEN Relu(t) ELSE Silu(t)

(***************************************************************************)
(* AdaLayerNorm.                                                           *)
(***************************************************************************)
AdaLayerNorm_init(embedding_dim, num_embeddings, seed) ==
    Ok([cls    |-> "AdaLayerNorm",
        emb    |-> Embedding_init(num_embeddings, embedding_dim, seed),
        linear |-> Linear_init(embedding_dim, embedding_dim * 2, TRUE, seed),
        norm   |-> LayerNorm_init(embedding_dim, Eps1e5, FALSE, FALSE)])

\* The axis paddle.chunk(emb, 2) splits along when none is given.
ChunkDefaultAxis == 0

\* AdaLayerNorm.forward(x, timestep); the locals are kept beside the result.
AdaLayerNorm_forward(self, x, timestep) ==
    LET e == Embedding_forward(self.emb, timestep)
    IN  IF ~e.ok THEN [out |-> e, locals |-> None] ELSE
    LET emb == Linear_forward(self.linear, Silu(e.val))
    IN  IF ~emb.ok THEN [out |-> emb, locals |-> None] ELSE
    LET ch == Chunk(emb.val, 2, ChunkDefaultAxis)
    IN  IF ~ch.ok THEN [out |-> ch, locals |-> [emb |-> emb.val]] ELSE
    LET n == LayerNorm_forward(self.norm, x)
        l == [emb |-> emb.val, scale |-> ch.val[1], shift |-> ch.val[2]]
    IN  IF ~n.ok THEN [out |-> n, locals |-> l]
        ELSE [out |-> Modulate(n.val, ch.val[1], ch.val[2]), locals |-> l]

(***************************************************************************)
(* AdaLayerNormZero.                                                       *)
(***************************************************************************)
\* num_embeddings is None or Some(n).
AdaLayerNormZero_init(embedding_dim, num_embeddings, seed) ==
    Ok([cls    |-> "AdaLayerNormZero",
        emb    |-> IF IsNone(num_embeddings) THEN None
                   ELSE CombinedTimestepLabelEmbeddings_init(
                            num_embeddings.some, embedding_dim, seed),
        linear |-> Linear_init(embedding_dim, 6 * embedding_dim, TRUE, seed),
        norm   |-> LayerNorm_init(embedding_dim, Eps1e6, FALSE, FALSE)])

\* ZeroNames with scale before shift, the order of AdaLayerNorm's unpacking.
ZeroNames_scale_first(ch) ==
    [shift_msa |-> ch[2], scale_msa |-> ch[1], gate_msa |-> ch[3],
     shift_mlp |-> ch[4], scale_mlp |-> ch[5], gate_mlp |-> ch[6]]

\* The chunks of emb.chunk(6, axis=1) that the names of the unpacking bind.
ZeroNames(ch) ==
    [shift_msa |-> ch[1], scale_msa |-> ch[2], gate_msa |-> ch[3],
     shift_mlp |-> ch[4], scale_mlp |-> ch[5], gate_mlp |-> ch[6]]

\* The tuple AdaLayerNormZero.forward returns.
ZeroReturn(x, l) == <<x, l.gate_msa, l.shift_mlp, l.scale_mlp, l.gate_mlp>>

\* AdaLayerNormZero.forward(x, timestep, class_labels, hidden_dtype, emb)
AdaLayerNormZero_forward(self, x, timestep, class_labels, emb) ==
    LET e == IF ~IsNone(self.emb)
             THEN CombinedTimestepLabelEmbeddings_forward(self.emb, timestep, class_labels)
             ELSE IF IsNone(emb) THEN Raise("TypeError") ELSE Ok(emb)
    IN  IF ~e.ok THEN [out |-> e, locals |-> None] ELSE
    LET proj == Linear_forward(self.linear, Silu(e.val))
    IN  IF ~proj.ok THEN [out |-> proj, locals |-> None] ELSE
    LET ch == Chunk(proj.val, 6, 1)
    IN  IF ~ch.ok THEN [out |-> ch, locals |-> [emb |-> proj.val]] ELSE
    LET l == ZeroNames(ch.val) @@ [emb |-> proj.val]
        n == LayerNorm_forward(self.norm, x)
    IN  IF ~n.ok THEN [out |-> n, locals |-> l] ELSE
    LET m == Modulate(n.val, Unsqueeze1(l.scale_msa), Unsqueeze1(l.shift_msa))
    IN  IF ~m.ok THEN [out |-> m, locals |-> l]
        ELSE [out |-> Ok(ZeroReturn(m.val, l)), locals |-> l]

(***************************************************************************)
(* AdaLayerNormSingle.                                                     *)
(***************************************************************************)
AdaLayerNormSingle_init(embedding_dim, use_additional_conditions, seed) ==
    Ok([cls    |-> "AdaLayerNormSingle",
        emb    |-> CombinedTimestepSizeEmbeddings_init(
                       embedding_dim, embedding_dim \div 3,
                       use_additional_conditions, seed),
        linear |-> Linear_init(embedding_dim, 6 * embedding_dim, TRUE, seed)])

\* AdaLayerNormSingle.forward(timestep, added_cond_kwargs, batch_size,
\* hidden_dtype): **added_cond_kwargs unpacks a mapping; None is not one.
AdaLayerNormSingle_forward(self, timestep, added_cond_kwargs) ==
    IF IsNone(added_cond_kwargs) THEN [out |-> Raise("TypeError"), locals |-> None] ELSE
    LET e == CombinedTimestepSizeEmbeddings_forward(
                 self.emb, timestep,
                 added_cond_kwargs.resolution, added_cond_kwargs.aspect_ratio)
    IN  IF ~e.ok THEN [out |-> e, locals |-> None] ELSE
    LET proj == Linear_forward(self.linear, Silu(e.val))
    IN  IF ~proj.ok THEN [out |-> proj, locals |-> [embedded_timestep |-> e.val]]
        ELSE [out |-> Ok(<<proj.val, e.val>>),
              locals |-> [embedded_timestep |-> e.val]]

(***************************************************************************)
(* AdaGroupNorm.                                                           *)
(***************************************************************************)
\* act_fn is None or Some(name).
AdaGroupNorm_init(embedding_dim, out_dim, num_groups, act_fn, eps, seed) ==
    IF ~IsNone(act_fn) /\ act_fn.some \notin ACTIVATION_FUNCTIONS
    THEN Raise("ValueError")
    ELSE Ok([cls        |-> "AdaGroupNorm",
             num_groups |-> num_groups,
             eps        |-> eps,
             act        |-> act_fn,
             linear     |-> Linear_init(embedding_dim, out_dim * 2, TRUE, seed),
             group_norm |-> [GroupNorm_init(num_groups, out_dim, eps)
                                EXCEPT !.weight = None, !.bias = None]])

\* AdaGroupNorm.forward(x, emb)
AdaGroupNorm_forward(self, x, emb) ==
    LET a == IF IsNone(self.act) THEN emb ELSE Activate(self.act.some, emb)
        e == Linear_forward(self.linear, a)
    IN  IF ~e.ok THEN [out |-> e, locals |-> None] ELSE
    LET ch == Chunk(Unsqueeze23(e.val), 2, 1)
    IN  IF ~ch.ok THEN [out |-> ch, locals |-> [emb |-> e.val]] ELSE
    LET l == [emb |-> e.val, scale |-> ch.val[1], shift |-> ch.val[2]]
        n == GroupNorm_forward(self.group_norm, x)
    IN  IF ~n.ok THEN [out |-> n, locals |-> l]
        ELSE [out |-> Modulate(n.val, l.scale, l.shift), locals |-> l]

(***************************************************************************)
(* AdaLayerNormContinuous.                                                 *)
(***************************************************************************)
\* AdaLayerNormContinuous_init without its else branch: any norm_type that
\* is not "rms_norm" builds the layer normalizer.
AdaLayerNormContinuous_init_no_else(embedding_dim, conditioning_embedding_dim, elementwise_affine, eps, bias, norm_type, seed) ==
    LET linear == Linear_init(conditioning_embedding_dim, embedding_dim * 2, bias, seed)
    IN  IF norm_type = "rms_norm"
        THEN Ok([cls |-> "AdaLayerNormContinuous", linear |-> linear,
                 norm |-> RMSNorm_init(embedding_dim, eps, elementwise_affine)])
        ELSE Ok([cls |-> "AdaLayerNormContinuous", linear |-> linear,
                 norm |-> LayerNorm_init(embedding_dim, eps, elementwise_affine, bias)])

AdaLayerNormContinuous_init(embedding_dim, conditioning_embedding_dim, elementwise_affine, eps, bias, norm_type, seed) ==
    LET linear == Linear_init(conditioning_embedding_dim, embedding_dim * 2, bias, seed)
    IN  IF norm_type = "layer_norm"
        THEN Ok([cls |-> "AdaLayerNormContinuous", linear |-> linear,
                 norm |-> LayerNorm_init(embedding_dim, eps, elementwise_affine, bias)])
        ELSE IF norm_type = "rms_norm"
        THEN Ok([cls |-> "AdaLayerNormContinuous", linear |-> linear,
                 norm |-> RMSNorm_init(embedding_dim, eps, elementwise_affine)])
        ELSE Raise("ValueError")

\* paddlemix.triton_ops.adaptive_layer_norm(x, scale, shift, weight, bias):
\* layer normalization of x with weight and bias, modulated by scale and
\* shift over the sequence axis.  No epsilon is among its arguments: it
\* normalizes with its own, 1e-5.
adaptive_layer_norm(x, scale, shift, weight, bias) ==
    IF Len(x.shape) # 3 THEN Raise("ValueError")
    ELSE Modulate(LayerNormOp(x, weight, bias, Eps1e5),
                  Unsqueeze1(scale), Unsqueeze1(shift))

\* os.getenv(name) as a condition: the variable is set and not empty.
Truthy(value) == ~IsNone(value) /\ value.some # ""

\* AdaLayerNormContinuous.forward(x, conditioning_embedding) under the value
\* `triton` of the environment variable INFERENCE_OPTIMIZE_TRITON.
AdaLayerNormContinuous_forward(self, x, conditioning_embedding, triton) ==
    LET emb == Linear_forward(self.linear, Silu(conditioning_embedding))
    IN  IF ~emb.ok THEN [out |-> emb, locals |-> None] ELSE
    LET ch == Chunk(emb.val, 2, 1)
    IN  IF ~ch.ok THEN [out |-> ch, locals |-> [emb |-> emb.val]] ELSE
    LET l == [emb |-> emb.val, scale |-> ch.val[1], shift |-> ch.val[2]]
    IN  IF Truthy(triton)
        THEN IF "bias" \notin DOMAIN self.norm
             THEN [out |-> Raise("AttributeError"), locals |-> l]
             ELSE [out |-> adaptive_layer_norm(x, l.scale, l.shift,
                                               self.norm.weight, self.norm.bias),
                   locals |-> l]
        ELSE LET n == Norm_call(self.norm, x)
             IN  IF ~n.ok THEN [out |-> n, locals |-> l]
                 ELSE [out |-> ModulateValue(n.val, Unsqueeze1(l.scale),
                                             Unsqueeze1(l.shift)),
                       locals |-> l]

(***************************************************************************)
(* Inputs.                                                                 *)
(***************************************************************************)
Batches == 1..MaxBatch

Seqs == 1..MaxSeq

\* An activation tensor.
Activation(sh, seed) == Fill(sh, XVals, seed)

\* A conditioning embedding [batch, width].
Conditioning(batch, width, seed) == Fill(<<batch, width>>, ParamVals, seed)

\* An integer tensor of shape sh, with values t0, t0 + 1, ... below mod.
IntTensor(sh, t0, mod) == Tensor(sh, [ix \in Indices(sh) |-> (t0 + Flat(ix)) % mod])

\* What os.getenv("INFERENCE_OPTIMIZE_TRITON") returns: None when the
\* variable is unset, else its string.
EnvValues == {None, Some(""), Some("1")}

\* The norm_type strings a caller passes.
NormTypes == {"layer_norm", "rms_norm", "unknown"}

\* The act_fn values a caller passes.
ActFns == {None, Some("silu"), Some("unknown")}

(***************************************************************************)
(* The state machine.                                                      *)
(***************************************************************************)
Init ==
    /\ layer = None
    /\ pc = "none"
    /\ new = None
    /\ op = ""
    /\ args = None
    /\ ret = None
    /\ raised = ""
    /\ locals = None

\* A constructor called with arguments a returned or raised r; `new` keeps
\* the call for as long as the layer lives.
Construct(name, a, r) ==
    /\ layer' = IF r.ok THEN r.val ELSE None
    /\ pc' = IF r.ok THEN "ready" ELSE "failed"
    /\ new' = [op |-> name, args |-> a]
    /\ raised' = r.err
    /\ UNCHANGED <<op, args, ret, locals>>

\* A forward called with arguments a returned or raised r.out.
Return(name, a, r) ==
    /\ pc' = "returned"
    /\ op' = name
    /\ args' = a
    /\ ret' = IF r.out.ok THEN r.out.val ELSE None
    /\ raised' = r.out.err
    /\ locals' = r.locals
    /\ UNCHANGED <<layer, new>>

Ready(cls) == pc = "ready" /\ layer.cls = cls

NewAdaLayerNorm ==
    /\ pc = "none"
    /\ \E d \in Dims, n \in 1..MaxEmbeddings, seed \in Seeds :
        Construct("AdaLayerNorm.__init__",
                  [embedding_dim |-> d, num_embeddings |-> n],
                  AdaLayerNorm_init(d, n, seed))

CallAdaLayerNorm ==
    /\ Ready("AdaLayerNorm")
    /\ \E b \in Batches, s \in Seqs, seed \in Seeds, scalar \in BOOLEAN,
          t0 \in 0..layer.emb.weight.shape[1] :
        LET tsh == IF scalar THEN <<>> ELSE <<b>>
            x == Activation(<<b, s, layer.norm.dim>>, seed)
            timestep == IntTensor(tsh, t0, layer.emb.weight.shape[1] + 1)
        IN  Return("AdaLayerNorm.forward", [x |-> x, timestep |-> timestep],
                   AdaLayerNorm_forward(layer, x, timestep))

NewAdaLayerNormZero ==
    /\ pc = "none"
    /\ \E d \in Dims, n \in {None} \cup {Some(k) : k \in 1..MaxEmbeddings}, seed \in Seeds :
        Construct("AdaLayerNormZero.__init__",
                  [embedding_dim |-> d, num_embeddings |-> n],
                  AdaLayerNormZero_init(d, n, seed))

CallAdaLayerNormZero ==
    /\ Ready("AdaLayerNormZero")
    /\ \E b \in Batches, s \in Seqs, seed \in Seeds, given \in BOOLEAN :
        LET x == Activation(<<b, s, layer.norm.dim>>, seed)
            timestep == IF IsNone(layer.emb) THEN None
                        ELSE IntTensor(<<b>>, seed, 3)
            class_labels == IF IsNone(layer.emb) THEN None
                            ELSE IntTensor(<<b>>, seed, layer.emb.num_classes)
            emb == IF given THEN Conditioning(b, layer.norm.dim, seed) ELSE None
        IN  Return("AdaLayerNormZero.forward",
                   [x |-> x, timestep |-> timestep, class_labels |-> class_labels,
                    emb |-> emb],
                   AdaLayerNormZero_forward(layer, x, timestep, class_labels, emb))

NewAdaLayerNormSingle ==
    /\ pc = "none"
    /\ \E d \in Dims, u \in BOOLEAN, seed \in Seeds :
        Construct("AdaLayerNormSingle.__init__",
                  [embedding_dim |-> d, use_additional_conditions |-> u],
                  AdaLayerNormSingle_init(d, u, seed))

CallAdaLayerNormSingle ==
    /\ Ready("AdaLayerNormSingle")
    /\ \E b \in Batches, seed \in Seeds, kw \in {"omitted", "none", "sizes"} :
        LET timestep == IntTensor(<<b>>, seed, 3)
            added_cond_kwargs ==
                CASE kw = "omitted" -> None
                  [] kw = "none" -> [resolution |-> None, aspect_ratio |-> None]
                  [] kw = "sizes" -> [resolution |-> IntTensor(<<b>>, seed + 1, 3),
                                      aspect_ratio |-> IntTensor(<<b>>, seed, 2)]
        IN  Return("AdaLayerNormSingle.forward",
                   [timestep |-> timestep, added_cond_kwargs |-> added_cond_kwargs],
                   AdaLayerNormSingle_forward(layer, timestep, added_cond_kwargs))

NewAdaGroupNorm ==
    /\ pc = "none"
    /\ \E d \in {1, MaxDim}, c \in 1..(MaxDim + 2), g \in 1..(MaxDim + 1),
       act_fn \in ActFns, eps \in EpsChoices, seed \in Seeds :
        Construct("AdaGroupNorm.__init__",
                  [embedding_dim |-> d, out_dim |-> c, num_groups |-> g,
                   act_fn |-> act_fn, eps |-> eps],
                  AdaGroupNorm_init(d, c, g, act_fn, eps, seed))

CallAdaGroupNorm ==
    /\ Ready("AdaGroupNorm")
    /\ \E b \in Batches, h \in Seqs, wide \in BOOLEAN, seed \in Seeds :
        LET w == IF wide THEN h ELSE 1
            x == Activation(<<b, layer.group_norm.num_channels, h, w>>, seed)
            emb == Conditioning(b, layer.linear.weight.shape[1], seed)
        IN  Return("AdaGroupNorm.forward", [x |-> x, emb |-> emb],
                   AdaGroupNorm_forward(layer, x, emb))

NewAdaLayerNormContinuous ==
    /\ pc = "none"
    /\ \E d \in Dims, c \in {1, MaxDim}, affine \in BOOLEAN, eps \in EpsChoices,
       bias \in BOOLEAN, norm_type \in NormTypes, seed \in Seeds :
        Construct("AdaLayerNormContinuous.__init__",
                  [embedding_dim |-> d, conditioning_embedding_dim |-> c,
                   elementwise_affine |-> affine, eps |-> eps, bias |-> bias,
                   norm_type |-> norm_type],
                  AdaLayerNormContinuous_init(d, c, affine, eps, bias, norm_type, seed))

CallAdaLayerNormContinuous ==
    /\ Ready("AdaLayerNormContinuous")
    /\ \E b \in Batches, s \in Seqs, seed \in Seeds, triton \in EnvValues :
        LET x == Activation(<<b, s, layer.norm.dim>>, seed)
            c == Conditioning(b, layer.linear.weight.shape[1], seed)
        IN  Return("AdaLayerNormContinuous.forward",
                   [x |-> x, conditioning_embedding |-> c, getenv |-> triton],
                   AdaLayerNormContinuous_forward(layer, x, c, triton))

NewRMSNorm ==
    /\ pc = "none"
    /\ \E d \in Dims, eps \in EpsChoices, affine \in BOOLEAN :
        Construct("RMSNorm.__init__",
                  [dim |-> d, epsilon |-> eps, elementwise_affine |-> affine],
                  Ok(RMSNorm_init(d, eps, affine)))

CallRMSNorm ==
    /\ Ready("RMSNorm")
    /\ \E b \in Batches, s \in Seqs, seed \in Seeds :
        LET x == Activation(<<b, s, layer.dim>>, seed)
        IN  Return("RMSNorm.forward", [hidden_states |-> x],
                   [out |-> RMSNorm_forward(layer, x), locals |-> None])

\* The caller is done with what forward returned or raised, or with the
\* exception of a constructor.
Discard ==
    /\ pc \in {"returned", "failed"}
    /\ pc' = IF pc = "returned" THEN "ready" ELSE "none"
    /\ new' = IF pc = "returned" THEN new ELSE None
    /\ op' = ""
    /\ args' = None
    /\ ret' = None
    /\ raised' = ""
    /\ locals' = None
    /\ UNCHANGED layer

\* The layer is dropped.
Delete ==
    /\ pc = "ready"
    /\ pc' = "none"
    /\ layer' = None
    /\ new' = None
    /\ UNCHANGED <<op, args, ret, raised, locals>>

Next ==
    \/ NewAdaLayerNorm
    \/ CallAdaLayerNorm
    \/ NewAdaLayerNormZero
    \/ CallAdaLayerNormZero
    \/ NewAdaLayerNormSingle
    \/ CallAdaLayerNormSingle
    \/ NewAdaGroupNorm
    \/ CallAdaGroupNorm
    \/ NewAdaLayerNormContinuous
    \/ CallAdaLayerNormContinuous
    \/ NewRMSNorm
    \/ CallRMSNorm
    \/ Discard
    \/ Delete

Spec == Init /\ [][Next]_vars

(***************************************************************************)
(* Properties.                                                             *)
(***************************************************************************)
\* The last operation is the forward `name`, and it has returned or raised.
Returned(name) == pc = "returned" /\ op = name

\* A layer of class cls is alive.
Alive(cls) == pc \in {"ready", "returned"} /\ layer.cls = cls

\* The last constructor call is `name`, whether it returned or raised.
Constructed(name) == ~IsNone(new) /\ new.op = name

\* Every id of an integer tensor is below n.
IdsBelow(ids, n) == \A ix \in DOMAIN ids.data : ids.data[ix] < n

\* norm * (1 + scale) + shift of single elements.
ModulateElement(norm, scale, shift) == NanPlus(NanMul(norm, Unit + scale), shift)

\* The forwards that return a modulated activation, on inputs that fit the
\* layer: a timestep per batch element with ids of the table, a conditioning
\* for AdaLayerNormZero, channels that divide into the groups, the
\* environment switch absent.
C1_ValidCall ==
    /\ pc = "returned"
    /\ CASE op = "AdaLayerNorm.forward" ->
               /\ args.timestep.shape = <<args.x.shape[1]>>
               /\ IdsBelow(args.timestep, layer.emb.weight.shape[1])
         [] op = "AdaLayerNormZero.forward" ->
               ~IsNone(layer.emb) \/ ~IsNone(args.emb)
         [] op = "AdaGroupNorm.forward" ->
               layer.group_norm.num_channels % layer.num_groups = 0
         [] op = "AdaLayerNormContinuous.forward" -> ~Truthy(args.getenv)
         [] OTHER -> FALSE

\* C1: for every variant and every valid input, forward returns a primary
\* output tensor whose shape is the shape of x.
C1_ShapePreserved ==
    C1_ValidCall =>
        /\ raised = ""
        /\ IF op = "AdaLayerNormZero.forward"
           THEN ret[1].shape = args.x.shape
           ELSE ret.shape = args.x.shape

\* A call of AdaLayerNorm.forward with x [batch, seq, dim] and timestep
\* [batch], every id below num_embeddings.
C2_Call ==
    /\ Returned("AdaLayerNorm.forward")
    /\ args.timestep.shape = <<args.x.shape[1]>>
    /\ IdsBelow(args.timestep, layer.emb.weight.shape[1])

\* C2: AdaLayerNorm.forward splits the projection of width 2*dim along the
\* last axis into scale (first dim columns) and shift (last dim columns) and
\* returns norm(x) * (1 + scale) + shift, scale and shift of batch element b
\* applied at every sequence position of x[b].
C2_SplitLastAxis ==
    C2_Call =>
        LET B   == args.x.shape[1]
            dim == args.x.shape[3]
            n   == LayerNorm_forward(layer.norm, args.x).val
        IN  /\ raised = ""
            /\ locals.scale.shape = <<B, dim>>
            /\ locals.shift.shape = <<B, dim>>
            /\ \A b \in 1..B, d \in 1..dim :
                  /\ locals.scale.data[<<b, d>>] = locals.emb.data[<<b, d>>]
                  /\ locals.shift.data[<<b, d>>] = locals.emb.data[<<b, dim + d>>]
            /\ ret.shape = args.x.shape
            /\ \A ix \in Indices(args.x.shape) :
                  ret.data[ix] =
                      ModulateElement(n.data[ix], locals.scale.data[<<ix[1], ix[3]>>],
                                      locals.shift.data[<<ix[1], ix[3]>>])

\* C3: RMSNorm.forward returns x / sqrt(mean(x^2) + eps) * scale (unscaled
\* when the scale is absent) for every input [batch, seq, dim]; it never
\* returns an absent value.  Stated for the normalizers with epsilon > 0.
C3_RMSNormReturns ==
    (Returned("RMSNorm.forward") /\ layer.epsilon > 0) =>
        /\ raised = ""
        /\ ~IsNone(ret)
        /\ ret = fused_rms_norm(args.hidden_states, layer.weight, layer.epsilon).val

\* C4: AdaLayerNormZero.forward splits the projection [batch, 6*dim] along
\* axis 1 into six equal chunks in the order shift_msa, scale_msa, gate_msa,
\* shift_mlp, scale_mlp, gate_mlp (their concatenation is the projection),
\* computes x' = norm(x) * (1 + scale_msa) + shift_msa over the sequence
\* axis, and returns (x', gate_msa, shift_mlp, scale_mlp, gate_mlp), each
\* gate, shift and scale of width dim per batch element.
C4_SixChunks ==
    Returned("AdaLayerNormZero.forward") =>
        LET B    == args.x.shape[1]
            dim  == args.x.shape[3]
            n    == LayerNorm_forward(layer.norm, args.x).val
            part == <<locals.shift_msa, locals.scale_msa, locals.gate_msa,
                      locals.shift_mlp, locals.scale_mlp, locals.gate_mlp>>
        IN  raised = "" =>
                /\ locals.emb.shape = <<B, 6 * dim>>
                /\ \A k \in 1..6 : part[k].shape = <<B, dim>>
                /\ \A k \in 1..6, b \in 1..B, d \in 1..dim :
                      part[k].data[<<b, d>>] = locals.emb.data[<<b, (k - 1) * dim + d>>]
                /\ Concat(part, 1) = locals.emb
                /\ Len(ret) = 5
                /\ ret[1].shape = args.x.shape
                /\ \A ix \in Indices(args.x.shape) :
                      ret[1].data[ix] =
                          ModulateElement(n.data[ix],
                                          locals.scale_msa.data[<<ix[1], ix[3]>>],
                                          locals.shift_msa.data[<<ix[1], ix[3]>>])
                /\ ret[2] = locals.gate_msa
                /\ ret[3] = locals.shift_mlp
                /\ ret[4] = locals.scale_mlp
                /\ ret[5] = locals.gate_mlp

\* A forward of AdaLayerNormZero on x [2, 2, 2] has returned; scale_msa and
\* shift_msa differ, and x' differs from norm(x).
C4_Witness ==
    /\ Returned("AdaLayerNormZero.forward")
    /\ raised = ""
    /\ args.x.shape = <<2, 2, 2>>
    /\ locals.shift_msa # locals.scale_msa
    /\ locals.gate_msa # locals.gate_mlp
    /\ ret[1] # LayerNorm_forward(layer.norm, args.x).val

\* Steps by which two results may differ and still agree.
Tol == 2

Close(u, v) == IF u = NaN \/ v = NaN THEN u = v ELSE Abs(u - v) <= Tol

\* Two outcomes of a forward agree: both raise, or both return tensors of
\* one shape with close elements.
SameOutcome(a, b) ==
    /\ a.ok = b.ok
    /\ a.ok =>
        /\ a.val.shape = b.val.shape
        /\ \A ix \in Indices(a.val.shape) : Close(a.val.data[ix], b.val.data[ix])

\* C5: the fused-kernel switch of AdaLayerNormContinuous is invisible: for
\* every construction and input, forward with INFERENCE_OPTIMIZE_TRITON set
\* has the outcome of forward with the switch absent.  Stated for the
\* constructions with eps > 0, the outcome of the call made is compared with
\* the outcome of the same call under the other setting of the switch.
C5_SwitchInvisible ==
    (Returned("AdaLayerNormContinuous.forward") /\ layer.norm.epsilon > 0) =>
        LET made  == IF raised = "" THEN Ok(ret) ELSE Raise(raised)
            other == AdaLayerNormContinuous_forward(
                         layer, args.x, args.conditioning_embedding,
                         IF Truthy(args.getenv) THEN None ELSE Some("1")).out
        IN  SameOutcome(made, other)

\* C6: AdaGroupNorm with an out_dim that num_groups does not divide fails at
\* construction; no such layer is ever alive.  Stated for the constructor
\* calls with eps > 0.
C6_GroupsDivideAtConstruction ==
    (Constructed("AdaGroupNorm.__init__") /\ new.args.eps > 0) =>
        (new.args.out_dim % new.args.num_groups # 0 => pc = "failed")

\* C7: a normalizer or Ada* layer constructed with epsilon <= 0 fails at
\* construction; every layer alive has epsilon > 0.
C7_EpsilonPositive ==
    /\ Alive("RMSNorm") => layer.epsilon > 0
    /\ Alive("AdaGroupNorm") => layer.group_norm.epsilon > 0
    /\ Alive("AdaLayerNormContinuous") => layer.norm.epsilon > 0

\* C8: AdaLayerNormContinuous with a norm_type other than "layer_norm" and
\* "rms_norm" fails with ValueError at construction, whatever the other
\* parameters; with either of the two it does not.
C8_UnknownNormType ==
    Constructed("AdaLayerNormContinuous.__init__") =>
        /\ (pc = "failed") = (new.args.norm_type \notin {"layer_norm", "rms_norm"})
        /\ pc = "failed" => raised = "ValueError" /\ IsNone(layer)

\* The constructor of AdaLayerNormContinuous has raised on "unknown".
C8_Witness ==
    /\ Constructed("AdaLayerNormContinuous.__init__")
    /\ new.args.norm_type = "unknown"
    /\ pc = "failed"
    /\ raised = "ValueError"

\* C9: with elementwise_affine=False the inner normalizer of
\* AdaLayerNormContinuous owns neither a learned weight nor a learned bias,
\* for either norm_type and either value of the bias flag.  Stated for the
\* layers with eps > 0.
C9_NoAffineParameters ==
    (Alive("AdaLayerNormContinuous") /\ ~new.args.elementwise_affine
        /\ new.args.eps > 0) =>
        /\ IsNone(layer.norm.weight)
        /\ "bias" \in DOMAIN layer.norm => IsNone(layer.norm.bias)

\* The dict of additional conditions is omitted, or holds what the embedder
\* was configured to use.
C10_Call ==
    /\ Returned("AdaLayerNormSingle.forward")
    /\ \/ IsNone(args.added_cond_kwargs)
       \/ ~layer.emb.use_additional_conditions
       \/ /\ ~IsNone(args.added_cond_kwargs.resolution)
          /\ ~IsNone(args.added_cond_kwargs.aspect_ratio)

\* C10: AdaLayerNormSingle.forward, with the dict of additional conditions
\* omitted (None) as well as supplied, returns the pair (linear(silu(e)), e)
\* of the embedder's e, without split or normalization.
C10_KwargsOptional ==
    C10_Call =>
        /\ raised = ""
        /\ Len(ret) = 2
        /\ ret[2] = locals.embedded_timestep
        /\ ret[1] = Linear_forward(layer.linear, Silu(ret[2])).val
        /\ ret[1].shape = <<args.timestep.shape[1], 6 * layer.emb.embedding_dim>>

====
